---------------------------- MODULE Spec2Model ----------------------------
(***************************************************************************)
(* A model of GooglePull.py: a one-shot job that walks a remote folder     *)
(* tree, downloads every file to a local destination and deletes what it   *)
(* downloaded (and the folders it finds empty) from the remote store.      *)
(*                                                                         *)
(* The job is sequential.  Its call stack (download_files, download_file,  *)
(* get_total_size, delete_empty_folders) is the variable `stack`; every    *)
(* remote call (a listing, a chunk read, a deletion) and every local       *)
(* filesystem call that can raise is one step, whose outcome the           *)
(* environment chooses.                                                    *)
(***************************************************************************)
EXTENDS Integers, Sequences, FiniteSets, TLC

(***************************************************************************)
(* Bounds of the model and constants of the program.                       *)
(***************************************************************************)
\* How many remote calls may fail (HttpError) in one run.
MaxFaults == 5
\* How many local filesystem calls may fail (OSError) in one run.
MaxIOFaults == 1
\* download_file(..., max_retry=5) and delete_empty_folders(..., max_retry=5).
max_retry == 5
\* get_destination(attempts=3).
attempts == 3

(***************************************************************************)
(* HTTP statuses of a remote call.  200 stands for a call that returns;    *)
(* every other status is raised as an HttpError.                           *)
(***************************************************************************)
RateLimitStatuses == {403, 429, 500, 503}
PermanentStatuses == {404}
ErrorStatuses == RateLimitStatuses \cup PermanentStatuses
Statuses == {200} \cup ErrorStatuses
Returns(status) == status = 200

\* error.resp.status in [403, 429, 500, 503]
IsRateLimit(status) == status \in RateLimitStatuses

RECURSIVE Pow2(_)
Pow2(n) == IF n = 0 THEN 1 ELSE 2 * Pow2(n - 1)

\* sleep_time = 2**retry
SleepTimeLinear(retry) == 2 * retry
SleepTime(retry) == Pow2(retry)

(***************************************************************************)
(* The remote tree of the run.  A node is known by its id; the listing     *)
(* gives its name, mimeType, md5Checksum and size; an item is a record     *)
(* that lacks the fields the listing leaves out (folders and Google        *)
(* documents have neither md5Checksum nor size).  A name is a stem and a   *)
(* suffix, so that Path.with_suffix can be modelled.  The content of a     *)
(* file is the sequence of the chunks (byte sequences) that next_chunk     *)
(* delivers.                                                               *)
(***************************************************************************)
None == "None"
FOLDER == "application/vnd.google-apps.folder"
DOCUMENT == "application/vnd.google-apps.document"
SPREADSHEET == "application/vnd.google-apps.spreadsheet"
PRESENTATION == "application/vnd.google-apps.presentation"
BINARY == "application/octet-stream"

RootId == "root"
NodeIds == {"root", "A", "B", "C", "D"}

RECURSIVE Flatten(_)
Flatten(chunks) ==
    IF chunks = <<>> THEN <<>> ELSE Head(chunks) \o Flatten(Tail(chunks))

\* hashlib.md5(bytes).hexdigest(), as a small polynomial hash of the bytes.
RECURSIVE Md5From(_, _)
Md5From(h, bytes) ==
    IF bytes = <<>> THEN h
    ELSE Md5From((h * 31 + Head(bytes) + 1) % 997, Tail(bytes))

md5(bytes) == Md5From(7, bytes)

Chunks(id) ==
    CASE id = "A" -> << <<1, 2>>, <<3>> >>
      [] id = "C" -> << <<4>> >>
      [] id = "D" -> << <<5, 6>> >>
      [] OTHER -> <<>>

Parent(id) ==
    CASE id = "A" -> "root"
      [] id = "B" -> "root"
      [] id = "D" -> "root"
      [] id = "C" -> "B"
      [] OTHER -> None

\* The order in which a listing returns the children of any folder.
ListingOrder == <<"B", "A", "C", "D">>

Meta(id) ==
    CASE id = "A" -> [id |-> "A", name |-> [stem |-> "A", suffix |-> ".bin"],
                      mimeType |-> BINARY, md5Checksum |-> md5(Flatten(Chunks("A"))),
                      size |-> <<3>>]
      [] id = "B" -> [id |-> "B", name |-> [stem |-> "B", suffix |-> ""],
                      mimeType |-> FOLDER]
      [] id = "C" -> [id |-> "C", name |-> [stem |-> "C", suffix |-> ".bin"],
                      mimeType |-> BINARY, md5Checksum |-> md5(Flatten(Chunks("C"))),
                      size |-> <<1>>]
      [] id = "D" -> [id |-> "D", name |-> [stem |-> "D", suffix |-> ".txt"],
                      mimeType |-> DOCUMENT]
      [] OTHER -> [id |-> id, name |-> [stem |-> "Folder to Download", suffix |-> ""],
                   mimeType |-> FOLDER]

\* key in item
Has(item, key) == key \in DOMAIN item

IsFolder(id) == Meta(id).mimeType = FOLDER
IsFile(id) == Meta(id).mimeType # FOLDER

RECURSIVE SelectSeq2(_, _)
\* The elements of seq that are in set S, in the order of seq.
SelectSeq2(seq, S) ==
    IF seq = <<>> THEN <<>>
    ELSE IF Head(seq) \in S THEN <<Head(seq)>> \o SelectSeq2(Tail(seq), S)
         ELSE SelectSeq2(Tail(seq), S)

\* The nodes of store `r` whose parent is `id`.
ChildrenIn(r, id) == {n \in r : Parent(n) = id}

RECURSIVE SubtreeIn(_, _)
\* `id` and everything under it in store `r`.
SubtreeIn(r, id) ==
    {id} \cup UNION {SubtreeIn(r, c) : c \in ChildrenIn(r, id)}

(***************************************************************************)
(* int(...) of a size: the size is a decimal string, a sequence of digits  *)
(* here.                                                                   *)
(***************************************************************************)
RECURSIVE IntFrom(_, _)
IntFrom(acc, digits) ==
    IF digits = <<>> THEN acc ELSE IntFrom(acc * 10 + Head(digits), Tail(digits))

int(s) == IntFrom(0, s)

\* int(item.get('size', 0))
SizeOf(item) == IF Has(item, "size") THEN int(item.size) ELSE 0

(***************************************************************************)
(* Paths.  A path is the sequence of names under the destination folder;   *)
(* the destination folder itself is the empty path.                        *)
(***************************************************************************)
\* dest_file_path.with_suffix(suffix)
with_suffix(path, suffix) ==
    [path EXCEPT ![Len(path)] = [@ EXCEPT !.suffix = suffix]]

\* The directories mkdir(parents=True) makes sure exist.
Prefixes(path) == {SubSeq(path, 1, k) : k \in 0..Len(path)}

\* open(path, 'wb').write(bytes)
WriteFile(fs, path, bytes) ==
    [q \in DOMAIN fs \cup {path} |-> IF q = path THEN bytes ELSE fs[q]]

(***************************************************************************)
(* The confirmation typed by the user, a sequence of characters, and       *)
(* confirmation.lower().strip().                                           *)
(***************************************************************************)
ConfirmInputs ==
    { <<"Y">>, <<"y">>, <<" ", "Y", "e", "s", " ">>, <<"Y", "E", "S">>,
      <<"n", "o">>, <<>>, <<"y", "e", "s", "!">>, <<"y", " ", "e", "s">> }

LowerChar(c) ==
    CASE c = "Y" -> "y" [] c = "E" -> "e" [] c = "S" -> "s" [] OTHER -> c

lower(str) == [k \in 1..Len(str) |-> LowerChar(str[k])]

RECURSIVE LStrip(_)
LStrip(str) ==
    IF str # <<>> /\ Head(str) = " " THEN LStrip(Tail(str)) ELSE str

RECURSIVE RStrip(_)
RStrip(str) ==
    IF str # <<>> /\ str[Len(str)] = " "
    THEN RStrip(SubSeq(str, 1, Len(str) - 1)) ELSE str

strip(str) == RStrip(LStrip(str))

\* confirmation in ["yes", "y"]
ConfirmedAny(c) == TRUE
Confirmed(c) == c \in { <<"y", "e", "s">>, <<"y">> }

(***************************************************************************)
(* State.                                                                  *)
(***************************************************************************)
VARIABLES
    pc,            \* where main() is
    stack,         \* the call stack under main(), innermost call last
    remote,        \* the ids of the nodes the remote store holds
    local,         \* the local files: path -> bytes
    dirs,          \* the local directories
    destTries,     \* get_destination: failed attempts so far
    confirmation,  \* the normalised confirmation, NotAsked before it is asked
    exit,          \* how main() ended
    faults,        \* remote calls that failed so far
    iofaults,      \* local calls that failed so far
    lastOp,        \* the most recent remote call
    prevOp,        \* the remote call before it
    invoked,       \* files download_file was called for
    fetched,       \* files next_chunk was called for
    written,       \* files whose destination file was opened for writing
    outcome,       \* per file, how download_file ended
    run,           \* 1 in the first run of the program, 2 in a run after it
    localBefore,   \* what the destination held when this run started
    remoteBefore,  \* what the store held when this run started
    exitBefore,    \* how the run before this one ended
    outcomeBefore, \* per file, how download_file ended in the run before
    budget         \* how many remote and local calls may fail

runVars == <<run, localBefore, remoteBefore, exitBefore, outcomeBefore, budget>>

jobVars == <<pc, stack, remote, local, dirs, destTries, confirmation, exit,
             faults, iofaults, lastOp, prevOp, invoked, fetched, written, outcome,
             runVars>>

\* One call of a function wrapped by handle_http_error_with_exponential_backoff.
VARIABLES
    rState,        \* idle, loop, exhausting, exhausted, returned or raised
    rMax,          \* max_retry
    rRetry,        \* the loop variable
    rCalls,        \* how many times func was called
    rSleeps,       \* the sleeps slept, in order
    rHist          \* the outcome of every call of func, in order

wrapperVars == <<rState, rMax, rRetry, rCalls, rSleeps, rHist>>

\* One call of get_total_files or get_total_size on a tree of its own.
VARIABLES
    tParent,       \* node -> the folder it is in (0: the folder asked about)
    tItem,         \* node -> its item, as a listing gives it
    tOrder,        \* the order in which a listing returns the nodes
    tFn,           \* the function called, None before the call
    tResult        \* what it returned

totalsVars == <<tParent, tItem, tOrder, tFn, tResult>>

others == <<wrapperVars, totalsVars, runVars>>

NotAsked == <<None>>

NoOp == [op |-> "none", id |-> None, result |-> "returned", empty |-> FALSE,
         children |-> {}, by |-> "none"]

\* The record of a remote call on `id`: whether it returned or raised (a
\* rate-limit status or another), whether a listing gave no item, what the
\* store held under `id` when the call was made, and the function that made it.
Op(kind, id, status, isEmpty) ==
    [op |-> kind, id |-> id,
     result |-> IF status = 200 THEN "returned"
                ELSE IF status \in {403, 429, 500, 503} THEN "rate_limit" ELSE "error",
     empty |-> isEmpty, children |-> ChildrenIn(remote, id),
     by |-> IF stack = <<>> THEN "main" ELSE stack[Len(stack)].fn]

(***************************************************************************)
(* Call frames.  Every frame has the same fields; a function uses the ones *)
(* it needs: id (the folder or the file), dest (dest_folder), items and i  *)
(* (a listing and the loop index over it), total and n (the tqdm bar of a  *)
(* download_files call, or the running total of get_total_size), path      *)
(* (dest_file_path), fh (the bytes retrieved), got (chunks retrieved),     *)
(* max_retry (the parameter of download_file and delete_empty_folders),    *)
(* retry (the loop variable of a retry loop), calls and sleeps (the calls  *)
(* made and the sleeps slept by that loop).                                *)
(***************************************************************************)
FrameWith(fn, at, id, dest, isRoot, maxRetry) ==
    [fn |-> fn, pc |-> at, id |-> id, dest |-> dest, is_root |-> isRoot,
     items |-> <<>>, i |-> 1, total |-> 0, n |-> 0, path |-> <<>>,
     fh |-> <<>>, got |-> 0, max_retry |-> maxRetry, retry |-> 0, calls |-> 0,
     sleeps |-> <<>>]

\* A call that leaves max_retry to its default.
Frame(fn, at, id, dest, isRoot) == FrameWith(fn, at, id, dest, isRoot, max_retry)

\* A loop that goes round again whatever `retry` is.
LoopsOnForever(retry, maxRetry) == TRUE

\* for _ in range(max_retry): whether the loop goes round once more after `retry`
LoopsOn(retry, maxRetry) == retry + 1 < maxRetry

Top == stack[Len(stack)]
Popped == SubSeq(stack, 1, Len(stack) - 1)
SetTop(f) == [stack EXCEPT ![Len(stack)] = f]
Running(fn, at) == pc = "walk" /\ stack # <<>> /\ Top.fn = fn /\ Top.pc = at

\* The first index from i on of a folder (or of a file) in items; 0 if none.
FirstFrom(items, i, wantFolder) ==
    LET S == {j \in i..Len(items) : IsFolder(items[j]) = wantFolder}
    IN  IF S = {} THEN 0 ELSE CHOOSE j \in S : \A k \in S : j <= k

(***************************************************************************)
(* list_sources: the children of parent_id, or [] when the call raised an  *)
(* HttpError.                                                              *)
(***************************************************************************)
list_sources(r, parent_id, status) ==
    IF Returns(status) THEN SelectSeq2(ListingOrder, ChildrenIn(r, parent_id))
    ELSE <<>>

\* service.files().delete(fileId=id).execute() when it returns: the store
\* without the node and what is under it.
files_delete_nothing(r, id) == r
files_delete(r, id) == r \ SubtreeIn(r, id)

\* A remote call with outcome `status`: a failure uses up the fault budget.
RemoteCall(status) ==
    /\ Returns(status) \/ faults < budget.remote
    /\ faults' = IF Returns(status) THEN faults ELSE faults + 1

\* A local filesystem call with outcome io.
LocalCall(io) ==
    /\ io = "ok" \/ iofaults < budget.io
    /\ iofaults' = IF io = "ok" THEN iofaults ELSE iofaults + 1

\* An exception that nothing below main() catches: main() logs it and ends.
Abort ==
    /\ stack' = <<>>
    /\ pc' = "done"
    /\ exit' = "error"

ghosts == <<invoked, fetched, written, outcome>>
ops == <<lastOp, prevOp>>
inputs == <<destTries, confirmation>>
disk == <<local, dirs>>

(***************************************************************************)
(* main()                                                                  *)
(***************************************************************************)
\* all_sources = list_sources(service, folder_id, resource_key)
MainList ==
    /\ pc = "list_root"
    /\ \E status \in Statuses :
         LET all_sources == list_sources(remote, RootId, status) IN
         /\ RemoteCall(status)
         /\ prevOp' = lastOp
         /\ lastOp' = Op("list", RootId, status, all_sources = <<>>)
         /\ IF all_sources = <<>>
            THEN pc' = "done" /\ exit' = "no_sources"
            ELSE pc' = "get_destination" /\ exit' = exit
    /\ UNCHANGED <<others, stack, remote, disk, inputs, iofaults, ghosts>>

\* dest_folder = get_destination()
GetDestination ==
    /\ pc = "get_destination"
    /\ \E is_dir \in BOOLEAN :
         IF is_dir
         THEN pc' = "confirm" /\ UNCHANGED <<destTries, exit, stack>>
         ELSE IF destTries + 1 < attempts
              THEN destTries' = destTries + 1 /\ UNCHANGED <<pc, exit, stack>>
              ELSE destTries' = destTries + 1 /\ Abort
    /\ UNCHANGED <<others, remote, disk, confirmation, faults, iofaults, ops, ghosts>>

\* The confirmation, its guard and the call of download_files.
Confirm ==
    /\ pc = "confirm"
    /\ \E typed \in ConfirmInputs :
         LET c == strip(lower(typed)) IN
         /\ confirmation' = c
         /\ IF Confirmed(c)
            THEN /\ pc' = "walk"
                 /\ stack' = <<Frame("download_files", "mkdir", RootId, <<>>, TRUE)>>
                 /\ exit' = exit
            ELSE /\ pc' = "done"
                 /\ exit' = "cancelled"
                 /\ stack' = stack
    /\ UNCHANGED <<others, remote, disk, destTries, faults, iofaults, ops, ghosts>>

\* download_files returned: logging.info("Operation completed.")
MainReturn ==
    /\ pc = "walk"
    /\ stack = <<>>
    /\ pc' = "done"
    /\ exit' = "completed"
    /\ UNCHANGED <<others, stack, remote, disk, inputs, faults, iofaults, ops, ghosts>>

(***************************************************************************)
(* download_files(service, source, dest_folder, is_root)                   *)
(***************************************************************************)
\* dest_folder = dest_folder / source['name'] unless is_root
DestOfFlat(f) == f.dest
DestOf(f) == IF f.is_root THEN f.dest ELSE Append(f.dest, Meta(f.id).name)

\* dest_folder.mkdir(parents=True, exist_ok=True)
DfMkdir ==
    /\ Running("download_files", "mkdir")
    /\ \E io \in {"ok", "OSError"} :
         LET f == Top
             d == DestOf(f)
         IN  /\ LocalCall(io)
             /\ IF io = "ok"
                THEN /\ dirs' = dirs \cup Prefixes(d)
                     /\ stack' = SetTop([f EXCEPT !.dest = d, !.pc = "list"])
                     /\ UNCHANGED <<pc, exit>>
                ELSE /\ Abort
                     /\ dirs' = dirs
    /\ UNCHANGED <<others, remote, local, inputs, faults, ops, ghosts>>

\* items = list_sources(service, source['id'])
DfList ==
    /\ Running("download_files", "list")
    /\ \E status \in Statuses :
         LET f == Top
             items == list_sources(remote, f.id, status)
         IN  /\ RemoteCall(status)
             /\ prevOp' = lastOp
             /\ lastOp' = Op("list", f.id, status, items = <<>>)
             /\ stack' = SetTop([f EXCEPT !.items = items, !.pc = "pbar"])
    /\ UNCHANGED <<others, pc, exit, remote, disk, inputs, iofaults, ghosts>>

\* tqdm(total=get_total_size(service, source['id'])): the call
DfTotal ==
    /\ Running("download_files", "pbar")
    /\ stack' = Append(SetTop([Top EXCEPT !.pc = "files", !.i = 1]),
                       Frame("get_total_size", "list", Top.id, <<>>, FALSE))
    /\ UNCHANGED <<others, pc, exit, remote, disk, inputs, faults, iofaults, ops, ghosts>>

\* One loop over items in the order of the listing, a folder walked where it
\* comes.
DfFilesInListingOrder ==
    /\ Running("download_files", "files")
    /\ LET f == Top
           j == f.i
       IN  IF j > Len(f.items)
           THEN /\ stack' = SetTop([f EXCEPT !.pc = "reap"])
                /\ invoked' = invoked
           ELSE IF IsFolder(f.items[j])
           THEN /\ stack' = Append(SetTop([f EXCEPT !.i = j + 1]),
                                   Frame("download_files", "mkdir", f.items[j], f.dest, FALSE))
                /\ invoked' = invoked
           ELSE /\ stack' = Append(SetTop([f EXCEPT !.i = j + 1]),
                                   Frame("download_file", "mkdir", f.items[j], f.dest, FALSE))
                /\ invoked' = invoked \cup {f.items[j]}
    /\ UNCHANGED <<others, pc, exit, remote, disk, inputs, faults, iofaults, ops,
                   fetched, written, outcome>>

\* for item in items: if it is not a folder: download_file(service, item, dest_folder, pbar)
DfFiles ==
    /\ Running("download_files", "files")
    /\ LET f == Top
           j == FirstFrom(f.items, f.i, FALSE)
       IN  IF j = 0
           THEN /\ stack' = SetTop([f EXCEPT !.pc = "folders", !.i = 1])
                /\ invoked' = invoked
           ELSE /\ stack' = Append(SetTop([f EXCEPT !.i = j + 1]),
                                   Frame("download_file", "mkdir", f.items[j], f.dest, FALSE))
                /\ invoked' = invoked \cup {f.items[j]}
    /\ UNCHANGED <<others, pc, exit, remote, disk, inputs, faults, iofaults, ops,
                   fetched, written, outcome>>

\* for item in items: if it is a folder: download_files(service, {...}, dest_folder)
DfFolders ==
    /\ Running("download_files", "folders")
    /\ LET f == Top
           j == FirstFrom(f.items, f.i, TRUE)
       IN  IF j = 0
           THEN stack' = SetTop([f EXCEPT !.pc = "reap"])
           ELSE stack' = Append(SetTop([f EXCEPT !.i = j + 1]),
                                Frame("download_files", "mkdir", f.items[j], f.dest, FALSE))
    /\ UNCHANGED <<others, pc, exit, remote, disk, inputs, faults, iofaults, ops, ghosts>>

\* delete_empty_folders called before the loop over the subfolders as well.
DfReapEarly ==
    /\ pc = "walk"
    /\ stack # <<>>
    /\ Top.fn = "download_files"
    /\ Top.pc \in {"folders", "reap"}
    /\ stack' = Append(SetTop([Top EXCEPT !.pc = IF @ = "reap" THEN "return" ELSE @]),
                       Frame("delete_empty_folders", "list", Top.id, <<>>, FALSE))
    /\ UNCHANGED <<others, pc, exit, remote, disk, inputs, faults, iofaults, ops, ghosts>>

\* delete_empty_folders(service, source['id']): the call
DfReap ==
    /\ Running("download_files", "reap")
    /\ stack' = Append(SetTop([Top EXCEPT !.pc = "return"]),
                       Frame("delete_empty_folders", "list", Top.id, <<>>, FALSE))
    /\ UNCHANGED <<others, pc, exit, remote, disk, inputs, faults, iofaults, ops, ghosts>>

\* download_files returns
DfReturn ==
    /\ Running("download_files", "return")
    /\ stack' = Popped
    /\ UNCHANGED <<others, pc, exit, remote, disk, inputs, faults, iofaults, ops, ghosts>>

(***************************************************************************)
(* get_total_size(service, parent_id) and get_total_files                  *)
(***************************************************************************)
RECURSIVE SumSizes(_)
\* sum(int(item.get('size', 0)) for item in items if item is not a folder)
SumSizes(items) ==
    IF items = <<>> THEN 0
    ELSE (IF Head(items).mimeType # FOLDER THEN SizeOf(Head(items)) ELSE 0)
         + SumSizes(Tail(items))

\* The items of a listing that gave the nodes `ids`.
Items(ids) == [k \in 1..Len(ids) |-> Meta(ids[k])]

\* items = list_sources(service, parent_id); total_size = sum(...)
GtsList ==
    /\ Running("get_total_size", "list")
    /\ \E status \in Statuses :
         LET f == Top
             items == list_sources(remote, f.id, status)
         IN  /\ RemoteCall(status)
             /\ prevOp' = lastOp
             /\ lastOp' = Op("list", f.id, status, items = <<>>)
             /\ stack' = SetTop([f EXCEPT !.items = items, !.total = SumSizes(Items(items)),
                                          !.pc = "loop", !.i = 1])
    /\ UNCHANGED <<others, pc, exit, remote, disk, inputs, iofaults, ghosts>>

\* for item in items: if it is a folder: total_size += get_total_size(service, item['id'])
GtsLoop ==
    /\ Running("get_total_size", "loop")
    /\ LET f == Top
           j == FirstFrom(f.items, f.i, TRUE)
           below == Len(stack) - 1
       IN  IF j # 0
           THEN stack' = Append(SetTop([f EXCEPT !.i = j + 1]),
                                Frame("get_total_size", "list", f.items[j], <<>>, FALSE))
           ELSE \* return total_size, to get_total_size or to tqdm(total=...)
                stack' = [Popped EXCEPT ![below] =
                            IF @.fn = "get_total_size"
                            THEN [@ EXCEPT !.total = @ + f.total]
                            ELSE [@ EXCEPT !.total = f.total, !.n = 0]]
    /\ UNCHANGED <<others, pc, exit, remote, disk, inputs, faults, iofaults, ops, ghosts>>

(***************************************************************************)
(* download_file(service, item, dest_folder, pbar, max_retry=5)            *)
(***************************************************************************)
\* The suffix of the exported file, or None when the content is fetched as it is.
ExportSuffix(mimeType) ==
    CASE mimeType = DOCUMENT -> ".docx"
      [] mimeType = SPREADSHEET -> ".xlsx"
      [] mimeType = PRESENTATION -> ".pptx"
      [] OTHER -> None

\* dest_file_path.exists() and its md5 equals item.get('md5Checksum', None)
MatchesNever(fs, path, item) == FALSE
Matches(fs, path, item) ==
    /\ path \in DOMAIN fs
    /\ Has(item, "md5Checksum")
    /\ md5(fs[path]) = item.md5Checksum

\* How a download_file call ends: the frame is popped and the end recorded.
Ends(id, how) ==
    /\ stack' = Popped
    /\ outcome' = [outcome EXCEPT ![id] = how]

\* dest_file_path = dest_folder / item['name']; dest_folder.mkdir(parents=True, exist_ok=True)
FileMkdir ==
    /\ Running("download_file", "mkdir")
    /\ \E io \in {"ok", "OSError"} :
         LET f == Top IN
         /\ LocalCall(io)
         /\ IF io = "ok"
            THEN /\ dirs' = dirs \cup Prefixes(f.dest)
                 /\ stack' = SetTop([f EXCEPT !.pc = "check",
                                              !.path = Append(f.dest, Meta(f.id).name)])
                 /\ UNCHANGED <<pc, exit>>
            ELSE /\ Abort
                 /\ dirs' = dirs
    /\ UNCHANGED <<others, remote, local, inputs, faults, ops, ghosts>>

\* The hash check, then the choice of the request and of the destination's suffix.
FileCheck ==
    /\ Running("download_file", "check")
    /\ LET f == Top
           item == Meta(f.id)
           suffix == ExportSuffix(item.mimeType)
       IN  IF Matches(local, f.path, item)
           THEN Ends(f.id, "Skipped")
           ELSE /\ stack' = SetTop([f EXCEPT !.pc = "chunks", !.retry = 0,
                                     !.path = IF suffix = None THEN f.path
                                              ELSE with_suffix(f.path, suffix)])
                /\ outcome' = outcome
    /\ UNCHANGED <<others, pc, exit, remote, disk, inputs, faults, iofaults, ops,
                   invoked, fetched, written>>

\* status, done = downloader.next_chunk(); pbar.update(int(status.resumable_progress))
\* inside for _ in range(max_retry): try ... except HttpError
FileChunk ==
    /\ Running("download_file", "chunks")
    /\ \E status \in Statuses :
         LET f == Top
             below == Len(stack) - 1
             fh == f.fh \o Chunks(f.id)[f.got + 1]
             done == f.got + 1 = Len(Chunks(f.id))
         IN  /\ RemoteCall(status)
             /\ prevOp' = lastOp
             /\ lastOp' = Op("chunk", f.id, status, FALSE)
             /\ fetched' = fetched \cup {f.id}
             /\ IF Returns(status)
                THEN /\ stack' = [stack EXCEPT
                            ![Len(stack)] = [f EXCEPT !.fh = fh, !.got = @ + 1,
                                                      !.calls = @ + 1,
                                                      !.pc = IF done THEN "write" ELSE "chunks"],
                            ![below] = [@ EXCEPT !.n = @ + Len(fh)]]
                ELSE IF IsRateLimit(status)
                THEN stack' = SetTop([f EXCEPT
                            !.sleeps = Append(@, SleepTime(f.retry)),
                            !.retry = @ + 1, !.calls = @ + 1,
                            !.pc = IF LoopsOn(f.retry, f.max_retry)
                                   THEN "chunks" ELSE "exhausted"])
                ELSE \* raise
                     stack' = SetTop([f EXCEPT !.calls = @ + 1, !.pc = "raise"])
    /\ UNCHANGED <<others, pc, exit, remote, disk, inputs, iofaults, invoked, written, outcome>>

\* except HttpError as error: logging.error(...), which ends download_file
FileRaise ==
    /\ Running("download_file", "raise")
    /\ Ends(Top.id, "Failed")
    /\ UNCHANGED <<others, pc, exit, remote, disk, inputs, faults, iofaults, ops,
                   invoked, fetched, written>>

\* else: logging.error("Exceeded maximum retry attempts."), and on to the write
FileExhausted ==
    /\ Running("download_file", "exhausted")
    /\ stack' = SetTop([Top EXCEPT !.pc = "write"])
    /\ UNCHANGED <<others, pc, exit, remote, disk, inputs, faults, iofaults, ops, ghosts>>

\* with open(dest_file_path, 'wb') as f_out: f_out.write(fh.getvalue())
FileWrite ==
    /\ Running("download_file", "write")
    /\ \E io \in {"ok", "OSError"} :
         LET f == Top IN
         /\ LocalCall(io)
         /\ written' = written \cup {f.id}
         /\ IF io = "ok"
            THEN /\ local' = WriteFile(local, f.path, f.fh)
                 /\ stack' = SetTop([f EXCEPT !.pc = "delete"])
                 /\ UNCHANGED <<pc, exit>>
            ELSE /\ Abort
                 /\ local' = local
    /\ UNCHANGED <<others, remote, dirs, inputs, faults, ops, invoked, fetched, outcome>>

\* service.files().delete(fileId=item['id']).execute(), any HttpError logged
FileDelete ==
    /\ Running("download_file", "delete")
    /\ \E status \in Statuses :
         LET f == Top IN
         /\ RemoteCall(status)
         /\ prevOp' = lastOp
         /\ lastOp' = Op("delete_file", f.id, status, FALSE)
         /\ IF Returns(status)
            THEN /\ remote' = files_delete(remote, f.id)
                 /\ Ends(f.id, "Downloaded-and-deleted")
            ELSE /\ remote' = remote
                 /\ Ends(f.id, "Downloaded-but-delete-failed")
    /\ UNCHANGED <<others, pc, exit, disk, inputs, iofaults, invoked, fetched, written>>

(***************************************************************************)
(* delete_empty_folders(service, folder_id, max_retry=5)                   *)
(***************************************************************************)
\* if not items:  # the folder is empty
IsEmptyListingAny(items) == TRUE
IsEmptyListing(items) == items = <<>>

\* items = list_sources(service, folder_id); if not items: ... else: ...
ReapList ==
    /\ Running("delete_empty_folders", "list")
    /\ \E status \in Statuses :
         LET f == Top
             items == list_sources(remote, f.id, status)
         IN  /\ RemoteCall(status)
             /\ prevOp' = lastOp
             /\ lastOp' = Op("list", f.id, status, items = <<>>)
             /\ stack' = SetTop([f EXCEPT !.items = items, !.i = 1, !.retry = 0,
                                          !.pc = IF IsEmptyListing(items)
                                                 THEN "delete" ELSE "recurse"])
    /\ UNCHANGED <<others, pc, exit, remote, disk, inputs, iofaults, ghosts>>

\* service.files().delete(fileId=folder_id).execute() inside for _ in range(max_retry)
ReapDelete ==
    /\ Running("delete_empty_folders", "delete")
    /\ \E status \in Statuses :
         LET f == Top IN
         /\ RemoteCall(status)
         /\ prevOp' = lastOp
         /\ lastOp' = Op("delete_folder", f.id, status, FALSE)
         /\ IF Returns(status)
            THEN /\ remote' = files_delete(remote, f.id)
                 /\ stack' = Popped
            ELSE IF IsRateLimit(status)
            THEN /\ stack' = SetTop([f EXCEPT
                        !.sleeps = Append(@, SleepTime(f.retry)),
                        !.retry = @ + 1, !.calls = @ + 1,
                        !.pc = IF LoopsOn(f.retry, f.max_retry)
                               THEN "delete" ELSE "exhausted"])
                 /\ remote' = remote
            ELSE \* raise
                 /\ stack' = SetTop([f EXCEPT !.calls = @ + 1, !.pc = "raise"])
                 /\ remote' = remote
    /\ UNCHANGED <<others, pc, exit, disk, inputs, iofaults, ghosts>>

\* The HttpError leaves delete_empty_folders: nothing catches it below main()
ReapRaise ==
    /\ Running("delete_empty_folders", "raise")
    /\ Abort
    /\ UNCHANGED <<others, remote, disk, inputs, faults, iofaults, ops, ghosts>>

\* else: logging.error("Exceeded maximum retry attempts.")
ReapExhausted ==
    /\ Running("delete_empty_folders", "exhausted")
    /\ stack' = Popped
    /\ UNCHANGED <<others, pc, exit, remote, disk, inputs, faults, iofaults, ops, ghosts>>

\* for item in items: if it is a folder: delete_empty_folders(service, item['id'])
ReapRecurse ==
    /\ Running("delete_empty_folders", "recurse")
    /\ LET f == Top
           j == FirstFrom(f.items, f.i, TRUE)
       IN  IF j = 0
           THEN stack' = Popped
           ELSE stack' = Append(SetTop([f EXCEPT !.i = j + 1]),
                                Frame("delete_empty_folders", "list", f.items[j], <<>>, FALSE))
    /\ UNCHANGED <<others, pc, exit, remote, disk, inputs, faults, iofaults, ops, ghosts>>

(***************************************************************************)
(* The job.                                                                *)
(***************************************************************************)
FileIds == {n \in NodeIds : IsFile(n)}
PathOfA == <<Meta("A").name>>

\* What the destination folder holds when the job starts.
LocalInits ==
    { <<>>,
      [p \in {PathOfA} |-> Flatten(Chunks("A"))],
      [p \in {PathOfA} |-> <<9>>] }

JobInit ==
    /\ pc = "list_root"
    /\ stack = <<>>
    /\ remote = NodeIds
    /\ local \in LocalInits
    /\ dirs = {<<>>}
    /\ destTries = 0
    /\ confirmation = NotAsked
    /\ exit = "running"
    /\ faults = 0
    /\ iofaults = 0
    /\ run = 1
    /\ localBefore = local
    /\ remoteBefore = remote
    /\ exitBefore = None
    /\ outcomeBefore = [n \in FileIds |-> "none"]
    /\ budget = [remote |-> MaxFaults, io |-> MaxIOFaults]
    /\ lastOp = NoOp
    /\ prevOp = NoOp
    /\ invoked = {}
    /\ fetched = {}
    /\ written = {}
    /\ outcome = [n \in FileIds |-> "none"]

JobNext ==
    \/ MainList \/ GetDestination \/ Confirm \/ MainReturn
    \/ DfMkdir \/ DfList \/ DfTotal \/ DfFiles \/ DfFolders \/ DfReap \/ DfReturn
    \/ GtsList \/ GtsLoop
    \/ FileMkdir \/ FileCheck \/ FileChunk \/ FileRaise \/ FileExhausted
    \/ FileWrite \/ FileDelete
    \/ ReapList \/ ReapDelete \/ ReapRaise \/ ReapExhausted \/ ReapRecurse

(***************************************************************************)
(* handle_http_error_with_exponential_backoff(func): the wrapper           *)
(***************************************************************************)
\* What a call of func can do: return (200), raise an HttpError with a status,
\* or raise another exception (0).
WrapperOutcomes == Statuses \cup {0}

\* for retry in range(max_retry): try: return func(...) except ...
WrapperCall ==
    /\ rState = "loop"
    /\ \E status \in WrapperOutcomes :
         /\ rCalls' = rCalls + 1
         /\ rHist' = Append(rHist, status)
         /\ IF Returns(status)
            THEN rState' = "returned" /\ UNCHANGED <<rRetry, rSleeps>>
            ELSE IF status = 0
            THEN \* except Exception as e: logging.error(...)
                 /\ rRetry' = rRetry + 1
                 /\ rSleeps' = rSleeps
                 /\ rState' = IF LoopsOn(rRetry, rMax) THEN "loop" ELSE "exhausting"
            ELSE IF IsRateLimit(status)
            THEN /\ rSleeps' = Append(rSleeps, SleepTime(rRetry))
                 /\ rRetry' = rRetry + 1
                 /\ rState' = IF LoopsOn(rRetry, rMax) THEN "loop" ELSE "exhausting"
            ELSE \* raise
                 rState' = "raised" /\ UNCHANGED <<rRetry, rSleeps>>
    /\ UNCHANGED <<jobVars, totalsVars, rMax>>

\* logging.error("Exceeded maximum retry attempts.")
WrapperExhausted ==
    /\ rState = "exhausting"
    /\ rState' = "exhausted"
    /\ UNCHANGED <<jobVars, totalsVars, rMax, rRetry, rCalls, rSleeps, rHist>>

WrapperIdle ==
    /\ rState = "idle"
    /\ rMax = 0
    /\ rRetry = 0
    /\ rCalls = 0
    /\ rSleeps = <<>>
    /\ rHist = <<>>

TotalsIdle ==
    /\ tParent = <<>>
    /\ tItem = <<>>
    /\ tOrder = <<>>
    /\ tFn = None
    /\ tResult = 0

(***************************************************************************)
(* get_total_files and get_total_size as functions of a tree: nodes        *)
(* 1..MaxNodes under the folder 0, with no listing failing.                *)
(***************************************************************************)
MaxNodes == 3
TNodes == 1..MaxNodes
SizeStrings == { <<2>>, <<1, 0>> }

\* What a listing can say of node n: a folder, a Google document (no size), or
\* a file with a size.
TItemChoices(n) ==
    { [id |-> n, mimeType |-> FOLDER], [id |-> n, mimeType |-> DOCUMENT] }
    \cup { [id |-> n, mimeType |-> BINARY, size |-> sz] : sz \in SizeStrings }

\* list_sources(service, parent_id) on that tree
t_list_sources(parent_id) ==
    LET ids == SelectSeq2(tOrder, {n \in TNodes : tParent[n] = parent_id})
    IN  [k \in 1..Len(ids) |-> tItem[ids[k]]]

RECURSIVE get_total_files(_)
RECURSIVE FilesOfFolders(_)
\* for item in items: if it is a folder: total_files += get_total_files(service, item['id'])
FilesOfFolders(items) ==
    IF items = <<>> THEN 0
    ELSE (IF Head(items).mimeType = FOLDER THEN get_total_files(Head(items).id) ELSE 0)
         + FilesOfFolders(Tail(items))

\* total_files = len(items), plus the totals of the folders
get_total_files(parent_id) ==
    LET items == t_list_sources(parent_id)
    IN  Len(items) + FilesOfFolders(items)

\* get_total_size without its second loop.
get_total_size_flat(parent_id) == SumSizes(t_list_sources(parent_id))

RECURSIVE get_total_size(_)
RECURSIVE SizesOfFolders(_)
\* for item in items: if it is a folder: total_size += get_total_size(service, item['id'])
SizesOfFolders(items) ==
    IF items = <<>> THEN 0
    ELSE (IF Head(items).mimeType = FOLDER THEN get_total_size(Head(items).id) ELSE 0)
         + SizesOfFolders(Tail(items))

get_total_size(parent_id) ==
    LET items == t_list_sources(parent_id)
    IN  SumSizes(items) + SizesOfFolders(items)

CallGetTotalFiles ==
    /\ tFn = None
    /\ tFn' = "get_total_files"
    /\ tResult' = get_total_files(0)
    /\ UNCHANGED <<jobVars, wrapperVars, tParent, tItem, tOrder>>

CallGetTotalSize ==
    /\ tFn = None
    /\ tFn' = "get_total_size"
    /\ tResult' = get_total_size(0)
    /\ UNCHANGED <<jobVars, wrapperVars, tParent, tItem, tOrder>>

\* No job is running.
JobIdle ==
    /\ pc = "idle"
    /\ stack = <<>>
    /\ remote = {}
    /\ local = <<>>
    /\ dirs = {<<>>}
    /\ destTries = 0
    /\ confirmation = NotAsked
    /\ exit = "running"
    /\ faults = 0
    /\ iofaults = 0
    /\ run = 1
    /\ localBefore = local
    /\ remoteBefore = remote
    /\ exitBefore = None
    /\ outcomeBefore = [n \in FileIds |-> "none"]
    /\ budget = [remote |-> MaxFaults, io |-> MaxIOFaults]
    /\ lastOp = NoOp
    /\ prevOp = NoOp
    /\ invoked = {}
    /\ fetched = {}
    /\ written = {}
    /\ outcome = [n \in FileIds |-> "none"]

TotalsInit ==
    /\ JobIdle
    /\ WrapperIdle
    /\ tItem \in {it \in [TNodes -> UNION {TItemChoices(n) : n \in TNodes}] :
                    \A n \in TNodes : it[n].id = n}
    /\ tParent \in {p \in [TNodes -> 0..(MaxNodes - 1)] :
                      \A n \in TNodes :
                         /\ p[n] < n
                         /\ p[n] # 0 => tItem[p[n]].mimeType = FOLDER}
    /\ tOrder \in {o \in [TNodes -> TNodes] : \A a, b \in TNodes : o[a] = o[b] => a = b}
    /\ tFn = None
    /\ tResult = 0

TotalsNext == CallGetTotalFiles \/ CallGetTotalSize

(***************************************************************************)
(* One call of a retrying function with max_retry = N: the wrapper, or     *)
(* download_file (called by download_files on the root), or                *)
(* delete_empty_folders.                                                   *)
(***************************************************************************)
MaxN == 4

RetryInit ==
    /\ TotalsIdle
    /\ local = <<>>
    /\ dirs = {<<>>}
    /\ destTries = 0
    /\ confirmation = <<"y">>
    /\ exit = "running"
    /\ faults = 0
    /\ iofaults = 0
    /\ run = 1
    /\ localBefore = local
    /\ remoteBefore = NodeIds
    /\ exitBefore = None
    /\ outcomeBefore = [n \in FileIds |-> "none"]
    /\ budget = [remote |-> MaxFaults, io |-> MaxIOFaults]
    /\ lastOp = NoOp
    /\ prevOp = NoOp
    /\ fetched = {}
    /\ written = {}
    /\ outcome = [n \in FileIds |-> "none"]
    /\ \E N \in 1..MaxN :
         \/ /\ pc = "wrapper"
            /\ stack = <<>>
            /\ remote = NodeIds
            /\ invoked = {}
            /\ rState = "loop"
            /\ rMax = N
            /\ rRetry = 0
            /\ rCalls = 0
            /\ rSleeps = <<>>
            /\ rHist = <<>>
         \/ /\ pc = "walk"
            /\ WrapperIdle
            /\ remote = NodeIds
            /\ \E file \in {"A", "D"} :
                 /\ invoked = {file}
                 /\ stack = << [Frame("download_files", "files", RootId, <<>>, TRUE)
                                  EXCEPT !.items = <<"B", "A", "D">>],
                               FrameWith("download_file", "mkdir", file, <<>>, FALSE, N) >>
         \/ /\ pc = "walk"
            /\ WrapperIdle
            /\ invoked = {}
            /\ remote \in {NodeIds, NodeIds \ {"C"}}
            /\ \E folder \in {RootId, "B"} :
                 stack = << FrameWith("delete_empty_folders", "list", folder, <<>>, FALSE, N) >>

RetryNext ==
    \/ WrapperCall \/ WrapperExhausted
    \/ FileMkdir \/ FileCheck \/ FileChunk \/ FileRaise \/ FileExhausted
    \/ FileWrite \/ FileDelete
    \/ ReapList \/ ReapDelete \/ ReapRaise \/ ReapExhausted \/ ReapRecurse

vars == <<jobVars, wrapperVars, totalsVars>>

SpecTotals == TotalsInit /\ [][TotalsNext]_vars
SpecRetry == RetryInit /\ [][RetryNext]_vars

Init == JobInit /\ WrapperIdle /\ TotalsIdle
Next == JobNext
Spec == Init /\ [][Next]_vars

(***************************************************************************)
(* The program run a second time, on the same root and the same            *)
(* destination, after a first run that ended: python GooglePull.py again.  *)
(* The store and the destination are what the first run left.  A second    *)
(* run is started after first runs with at most MaxRerunFaults failed      *)
(* remote calls, and the two runs together have that many.                 *)
(***************************************************************************)
MaxRerunFaults == 1

Rerun ==
    /\ pc = "done"
    /\ run = 1
    /\ faults <= MaxRerunFaults
    /\ run' = 2
    /\ pc' = "list_root"
    /\ exit' = "running"
    /\ destTries' = 0
    /\ confirmation' = NotAsked
    /\ localBefore' = local
    /\ remoteBefore' = remote
    /\ exitBefore' = exit
    /\ outcomeBefore' = outcome
    /\ budget' = [budget EXCEPT !.remote = MaxRerunFaults]
    /\ lastOp' = NoOp
    /\ prevOp' = NoOp
    /\ invoked' = {}
    /\ fetched' = {}
    /\ written' = {}
    /\ outcome' = [n \in FileIds |-> "none"]
    /\ UNCHANGED <<wrapperVars, totalsVars, stack, remote, disk, faults, iofaults>>

TwiceNext == JobNext \/ Rerun
SpecTwice == Init /\ [][TwiceNext]_vars

(***************************************************************************)
(* Properties.                                                             *)
(***************************************************************************)
RateLimit == {403, 429, 500, 503}
Yes == { <<"y", "e", "s">>, <<"y">> }
IsDelete(op) == op.op \in {"delete_file", "delete_folder"}

\* The local path that mirrors file f: the names of the folders from the root
\* down, then the name of the file, with the suffix of its export format.
RECURSIVE FolderPath(_)
FolderPath(id) ==
    IF id = RootId THEN <<>> ELSE Append(FolderPath(Parent(id)), Meta(id).name)

MirrorPath(f) ==
    LET item == Meta(f)
        suffix == CASE item.mimeType = DOCUMENT -> ".docx"
                    [] item.mimeType = SPREADSHEET -> ".xlsx"
                    [] item.mimeType = PRESENTATION -> ".pptx"
                    [] OTHER -> item.name.suffix
    IN  Append(FolderPath(Parent(f)), [stem |-> item.name.stem, suffix |-> suffix])

\* C1: nothing is deleted from the remote store, and no deletion is attempted,
\* unless the confirmation was given as "yes" or "y"; a job that ended on an
\* empty root listing, an invalid destination or a refusal left the store as
\* it was.
C1_NoDeletionWithoutConfirmation ==
    /\ confirmation \notin Yes =>
         remote = NodeIds /\ ~IsDelete(lastOp) /\ ~IsDelete(prevOp)
    /\ exit \in {"no_sources", "cancelled"} => remote = NodeIds
    /\ (exit = "error" /\ confirmation = NotAsked) => remote = NodeIds

\* C1, its case: after a confirmation a file was deleted from the remote store.
C1_Witness ==
    /\ confirmation \in Yes
    /\ lastOp.op = "delete_file"
    /\ lastOp.result = "returned"
    /\ lastOp.id \notin remote

\* C2: when download_file has just deleted a file from the remote store, the
\* destination file holds the complete content of that file.
C2_DeletedOnlyWhenCompletelyWritten ==
    (lastOp.op = "delete_file" /\ lastOp.result = "returned") =>
        /\ MirrorPath(lastOp.id) \in DOMAIN local
        /\ local[MirrorPath(lastOp.id)] = Flatten(Chunks(lastOp.id))

\* C3: a folder that has a child when its deletion is attempted is never
\* deleted.
C3_NonEmptyFolderNeverDeleted ==
    ~ ( /\ lastOp.op = "delete_folder"
        /\ lastOp.result = "returned"
        /\ lastOp.children # {} )

\* C4, as stated: the remote call made just before any attempt to delete a
\* folder is a listing of that folder that gave no item.
C4_EveryAttemptFollowsAListing ==
    lastOp.op = "delete_folder" =>
        prevOp.op = "list" /\ prevOp.id = lastOp.id /\ prevOp.empty

\* C4, amended: the remote call made just before an attempt to delete a folder
\* is a listing of that folder that gave no item, or an attempt to delete
\* that same folder that failed with a rate-limit status.
C4_AttemptFollowsListingOrRetry ==
    lastOp.op = "delete_folder" =>
        \/ prevOp.op = "list" /\ prevOp.id = lastOp.id /\ prevOp.empty
        \/ /\ prevOp.op = "delete_folder"
           /\ prevOp.id = lastOp.id
           /\ prevOp.result = "rate_limit"

\* C4, its case: a folder was deleted right after its listing gave no item.
C4_Witness ==
    /\ lastOp.op = "delete_folder"
    /\ lastOp.result = "returned"
    /\ prevOp.op = "list"
    /\ prevOp.id = lastOp.id
    /\ prevOp.empty

\* C5: while download_file is fetching the content of a file or is about to
\* write it, no file of that name whose md5 equals the item's md5Checksum is
\* at the destination: for a file that is there with that hash, neither the
\* fetch nor the write is reached.
C5_HashShortCircuit ==
    (/\ pc = "walk"
     /\ stack # <<>>
     /\ Top.fn = "download_file"
     /\ Top.pc \in {"chunks", "raise", "exhausted", "write"}) =>
        LET item == Meta(Top.id)
            p == Append(Top.dest, item.name)
        IN  ~ ( /\ p \in DOMAIN local
                /\ Has(item, "md5Checksum")
                /\ md5(local[p]) = item.md5Checksum )

\* C5, its case: a file that was at the destination with the item's hash was
\* skipped, with no fetch and no write.
C5_Witness ==
    /\ outcome["A"] = "Skipped"
    /\ "A" \notin fetched
    /\ "A" \notin written
    /\ md5(local[PathOfA]) = Meta("A").md5Checksum

\* C6: in a run that completed with no remote call failing, a file that was
\* skipped because of its hash is no longer in the remote store.
C6_SkippedFileIsDeleted ==
    \A f \in FileIds :
        (exit = "completed" /\ faults = 0 /\ outcome[f] = "Skipped") => f \notin remote

\* The sleeps of n failed attempts in a row: 2^0, 2^1, ..., 2^(n-1).
Powers(n) == [k \in 1..n |-> Pow2(k - 1)]

\* C7: a retried call that raises only rate-limit statuses (403, 429, 500,
\* 503) is made max_retry times, with the sleeps 2^0, ..., 2^(max_retry-1)
\* after the attempts, and is then reported as exhausted, never before; a call
\* that first raises another HttpError is made once and the error is raised
\* with no sleep.  This holds of the wrapper and of the retry loops of
\* download_file and delete_empty_folders.
C7_RetryBound ==
    /\ (rState # "idle" /\ \A k \in 1..Len(rHist) : rHist[k] \in RateLimit) =>
         /\ rCalls = Len(rHist)
         /\ rCalls <= rMax
         /\ rSleeps = Powers(rCalls)
         /\ \A k \in 1..(Len(rSleeps) - 1) : rSleeps[k] < rSleeps[k + 1]
         /\ rCalls < rMax => rState = "loop"
         /\ rCalls = rMax => rState \in {"exhausting", "exhausted"}
    /\ (rState # "idle" /\ rHist # <<>> /\ rHist[1] \notin RateLimit \cup {200, 0}) =>
         rState = "raised" /\ rCalls = 1 /\ rSleeps = <<>>
    /\ (stack # <<>> /\ Top.fn \in {"download_file", "delete_empty_folders"}) =>
         /\ (Top.got = 0 /\ Top.pc = (IF Top.fn = "download_file" THEN "chunks" ELSE "delete")) =>
                Top.calls < Top.max_retry /\ Top.sleeps = Powers(Top.calls)
         /\ (Top.got = 0 /\ Top.pc = "exhausted") =>
                Top.calls = Top.max_retry /\ Top.sleeps = Powers(Top.max_retry)
         /\ (Top.pc = "raise" /\ Top.calls = 1) => Top.sleeps = <<>>

\* C7, its case: a wrapped call that raised a rate-limit status three times
\* with max_retry = 3 was reported as exhausted after the sleeps 1, 2, 4.
C7_Witness ==
    /\ rState = "exhausted"
    /\ rMax = 3
    /\ rCalls = 3
    /\ rSleeps = <<1, 2, 4>>
    /\ \A k \in 1..Len(rHist) : rHist[k] \in RateLimit

\* C8: when the job has ended, if download_file was called for a file then it
\* was called for every file of the same folder.
C8_SiblingsStillTransferred ==
    \A f, g \in FileIds :
        (pc = "done" /\ Parent(f) = Parent(g) /\ f \in invoked) => g \in invoked

\* The files of the tree of a totals call, and the number a size string denotes.
TFiles == {n \in TNodes : tItem[n].mimeType # FOLDER}
DigitsValue(digits) ==
    IF Len(digits) = 1 THEN digits[1] ELSE 10 * digits[1] + digits[2]
TSize(n) == IF "size" \in DOMAIN tItem[n] THEN DigitsValue(tItem[n].size) ELSE 0

RECURSIVE TSizeOver(_)
TSizeOver(S) ==
    IF S = {} THEN 0
    ELSE LET n == CHOOSE n \in S : TRUE IN TSize(n) + TSizeOver(S \ {n})

\* C9: get_total_files returns the number of the files of the tree.
C9_CountsFilesOnly ==
    tFn = "get_total_files" => tResult = Cardinality(TFiles)

\* C10: get_total_size returns the sum of the sizes of the files of the tree,
\* whatever the shape of the tree and the order of the listings; a folder adds
\* nothing and a file with no size adds 0.
C10_SumsFileSizes ==
    tFn = "get_total_size" => tResult = TSizeOver(TFiles)

\* C10, its case: the total of a tree with a sized file inside a subfolder, a
\* file with no size, and a listing order that is not the order of the ids.
C10_Witness ==
    /\ tFn = "get_total_size"
    /\ tResult = TSizeOver(TFiles)
    /\ tResult > 0
    /\ \E n \in TFiles : tParent[n] # 0 /\ "size" \in DOMAIN tItem[n]
    /\ \E n \in TFiles : "size" \notin DOMAIN tItem[n]
    /\ tOrder[1] # 1

\* C11: in a run where no remote call fails, the root folder stays in the
\* remote store, whatever was downloaded and deleted under it.
C11_RootNeverDeleted ==
    faults = 0 => RootId \in remote

\* C12: when a confirmed run that started with an empty destination has
\* completed, with no remote call and no local call failing, every file is at
\* the destination under the names of its folders, with its whole content, no
\* file is left in the remote store, and no folder other than the root is.
C12_MirroredAndRemoved ==
    (/\ pc = "done"
     /\ exit = "completed"
     /\ faults = 0
     /\ iofaults = 0
     /\ DOMAIN localBefore = {})
    => /\ \A f \in FileIds :
            /\ MirrorPath(f) \in DOMAIN local
            /\ local[MirrorPath(f)] = Flatten(Chunks(f))
            /\ f \notin remote
       /\ \A g \in NodeIds \ {RootId} : IsFolder(g) => g \notin remote

\* C12, its case: such a run has ended, and the file of subfolder B is at the
\* destination under B.
C12_Witness ==
    /\ pc = "done"
    /\ exit = "completed"
    /\ faults = 0
    /\ iofaults = 0
    /\ DOMAIN localBefore = {}
    /\ MirrorPath("C") \in DOMAIN local
    /\ Len(MirrorPath("C")) = 2
    /\ FileIds \cap remote = {}
    /\ "B" \notin remote

\* Two destinations hold the same files with the same contents.
SameTree(a, b) ==
    /\ DOMAIN a = DOMAIN b
    /\ \A p \in DOMAIN a : a[p] = b[p]

\* The second run found nothing to transfer and left the destination as the
\* first run left it.
NothingTransferred ==
    /\ SameTree(local, localBefore)
    /\ fetched = {}
    /\ written = {}
    /\ \A f \in FileIds : outcome[f] \in {"none", "Skipped"}

\* No remote call failed with a rate-limit status in either run: none failed,
\* or the only one that failed is the one that made download_file end as
\* Failed in the first run, which a rate-limit status never does.
NoTransientError ==
    \/ faults = 0
    \/ faults = 1 /\ \E f \in FileIds : outcomeBefore[f] = "Failed"

\* C13, as stated: in a second run after a completed first run, with no
\* transient error in either run, nothing is transferred and the destination
\* stays as the first run left it.
C13_IdempotentWithoutTransientErrors ==
    (run = 2 /\ exitBefore = "completed" /\ iofaults = 0 /\ NoTransientError)
    => NothingTransferred

\* C13, amended: in a second run after a completed first run, with no remote
\* call and no local call failing in either run, nothing is transferred, the
\* destination stays as the first run left it, and nothing is deleted.
C13_IdempotentWithoutErrors ==
    (run = 2 /\ exitBefore = "completed" /\ iofaults = 0 /\ faults = 0)
    => NothingTransferred /\ remote = remoteBefore

\* C13, its case: a second run has completed after a failure-free first run
\* that left a file in the remote store, and it skipped that file.
C13_Witness ==
    /\ run = 2
    /\ exitBefore = "completed"
    /\ pc = "done"
    /\ exit = "completed"
    /\ faults = 0
    /\ iofaults = 0
    /\ outcome["A"] = "Skipped"
    /\ NothingTransferred
    /\ remote = remoteBefore

\* The bytes of the whole tree, as the first get_total_size call gives them
\* when none of its listings fails.
WholeTotal == SumSizes(Items(SelectSeq2(ListingOrder, NodeIds \ {RootId})))

\* The total of the root's progress bar has been computed, and it is not the
\* bytes of the whole tree: a listing of the first get_total_size call failed.
InitialTotalsFailed ==
    /\ stack # <<>>
    /\ stack[1].fn = "download_files"
    /\ stack[1].id = RootId
    /\ stack[1].pc \in {"files", "folders", "reap", "return"}
    /\ Len(stack) >= 2 => stack[2].fn # "get_total_size"
    /\ stack[1].total # WholeTotal

\* C14: after a listing of the initial totals has failed, the only remote call
\* of the run to fail, and after the root listing of main() has failed, nothing
\* has been deleted from the remote store and no deletion has been attempted;
\* after a failed root listing the run has ended.
C14_ErrorBeforeTheWalkAborts ==
    /\ (InitialTotalsFailed /\ faults = 1) => remote = NodeIds /\ ~IsDelete(lastOp)
    /\ (lastOp.op = "list" /\ lastOp.by = "main" /\ lastOp.result # "returned")
         => pc = "done" /\ remote = NodeIds

\* C15: when the first remote call that fails in a run fails with a rate-limit
\* status, the run has not ended on it, and the remote call made next is the
\* same operation on the same node by the same function: a second attempt.
C15_TransientFailureIsRetried ==
    /\ (faults = 1 /\ lastOp.result = "rate_limit") => pc # "done"
    /\ (faults = 1 /\ prevOp.result = "rate_limit")
         => /\ lastOp.op = prevOp.op
            /\ lastOp.id = prevOp.id
            /\ lastOp.by = prevOp.by

\* The listing made by the download_files call of frame k gave no item. In the
\* first run a folder has a child when download_files lists it, so the listing
\* failed.
ListingFailedIn(k) ==
    /\ stack[k].fn = "download_files"
    /\ stack[k].pc \notin {"mkdir", "list"}
    /\ stack[k].items = <<>>

\* C16: while download_files is at work on a folder whose listing failed, the
\* folder and everything under it are in the remote store.
C16_FailedFolderUntouched ==
    \A k \in 1..Len(stack) :
        ListingFailedIn(k) => SubtreeIn(NodeIds, stack[k].id) \subseteq remote

\* C17: in a run where no remote call fails, the progress of a bar never
\* exceeds its total.
C17_ProgressWithinTotal ==
    faults = 0 =>
        \A k \in 1..Len(stack) :
            stack[k].fn = "download_files" => stack[k].n <= stack[k].total

\* C18: in every download_files call, once the loop over the files is over
\* download_file has been called for every file of the listing; the call is in
\* its loop over the subfolders whenever it has called download_files for one
\* of them; and whenever it has called download_file, it is in its loop over
\* the files and has made the directory of none of the subfolders.
C18_FilesBeforeFolders ==
    \A k \in 1..Len(stack) :
        stack[k].fn = "download_files" =>
            LET f == stack[k]
                inner == IF k < Len(stack) THEN stack[k + 1].fn ELSE None
            IN  /\ f.pc \in {"folders", "reap", "return"} =>
                      \A j \in 1..Len(f.items) : IsFile(f.items[j]) => f.items[j] \in invoked
                /\ inner = "download_files" => f.pc = "folders"
                /\ inner = "download_file" =>
                      /\ f.pc = "files"
                      /\ \A j \in 1..Len(f.items) :
                            IsFolder(f.items[j]) =>
                                Append(f.dest, Meta(f.items[j]).name) \notin dirs

\* C18, its case: the walk of the root is inside subfolder B, which the listing
\* gave before the files A.bin and D.txt, and both files have been handed to
\* download_file.
C18_Witness ==
    /\ Len(stack) >= 2
    /\ stack[1].fn = "download_files"
    /\ stack[1].items = <<"B", "A", "D">>
    /\ stack[1].pc = "folders"
    /\ stack[2].fn = "download_files"
    /\ stack[2].id = "B"
    /\ {"A", "D"} \subseteq invoked

\* C19: whenever delete_empty_folders is at work on a folder, the nearest
\* download_files call below it has finished its loops over the files and the
\* subfolders of a folder that is the reaped folder or is above it, nothing
\* but delete_empty_folders calls are above that call, and every download_file
\* call made for a file under the reaped folder has ended.
C19_ReapAfterSubtree ==
    \A k \in 1..Len(stack) :
        stack[k].fn = "delete_empty_folders" =>
            LET J == {j \in 1..(k - 1) : stack[j].fn = "download_files"} IN
            /\ J # {}
            /\ LET j == CHOOSE x \in J : \A y \in J : y <= x IN
               /\ stack[j].pc = "return"
               /\ stack[k].id \in SubtreeIn(NodeIds, stack[j].id)
               /\ \A m \in (j + 1)..Len(stack) : stack[m].fn = "delete_empty_folders"
            /\ \A f \in FileIds :
                  (f \in invoked /\ f \in SubtreeIn(NodeIds, stack[k].id))
                      => outcome[f] # "none"

\* C19, its case: delete_empty_folders is about to delete subfolder B, after
\* the file in it was downloaded and deleted.
C19_Witness ==
    /\ Len(stack) >= 3
    /\ Top.fn = "delete_empty_folders"
    /\ Top.id = "B"
    /\ Top.pc = "delete"
    /\ outcome["C"] = "Downloaded-and-deleted"
    /\ stack[Len(stack) - 1].fn = "download_files"
    /\ stack[Len(stack) - 1].id = "B"

(***************************************************************************)
(* The job under the scheduling of a sequential program: some step is      *)
(* taken as long as one can be.  The destination is empty at the start, or *)
(* holds A.bin as the store has it.                                        *)
(***************************************************************************)
LiveInit == Init /\ (DOMAIN local = {} \/ local[PathOfA] = Flatten(Chunks("A")))
SpecLive == LiveInit /\ [][Next]_vars /\ WF_vars(Next)

\* A retry loop is in an iteration range(max_retry) gives, and has not failed
\* more often than max_retry times.
RetryBounded ==
    \A k \in 1..Len(stack) :
        LET f == stack[k] IN
        /\ (f.fn = "download_file" /\ f.pc = "chunks") => f.retry < f.max_retry
        /\ (f.fn = "delete_empty_folders" /\ f.pc = "delete") => f.retry < f.max_retry
        /\ f.retry <= f.max_retry
        /\ Len(f.sleeps) <= f.max_retry

\* A call of download_file is for a file it was not called for before, a call
\* of download_files is for a subfolder whose directory was not made before.
WalkedOnce ==
    Len(stack') = Len(stack) + 1 =>
        LET g == stack'[Len(stack')] IN
        /\ g.fn = "download_file" => g.id \notin invoked
        /\ (g.fn = "download_files" /\ g.id # RootId) => FolderPath(g.id) \notin dirs

\* C20: every retry loop stays within max_retry attempts, the download pass
\* walks a listed node at most once, and the run reaches its end, whatever
\* remote calls fail.
C20_Terminates ==
    /\ []RetryBounded
    /\ [][WalkedOnce]_vars
    /\ <>(pc = "done")

\* C20, its case: a run has completed after the retry loop of download_file
\* used up its max_retry attempts on A.bin without retrieving one chunk.
C20_Witness ==
    /\ pc = "done"
    /\ exit = "completed"
    /\ faults >= max_retry
    /\ "A" \in written
    /\ local[PathOfA] = <<>>
    /\ invoked = FileIds

=============================================================================
